---- MODULE Spec2Model ----
(***************************************************************************)
(* hdf5plugin/__init__.py: the compression_opts encoders and the           *)
(* registration pass `_filters = dict(_init_filters())`.                   *)
(***************************************************************************)
EXTENDS Integers, Sequences, FiniteSets, TLC

VARIABLES
    hdf5_version,  \* h5py.h5.get_libversion(): the host library's version triple
    platform,      \* sys.platform
    order,         \* the iteration order of FILTERS.items()
    registered,    \* the host library's filter table (set of filter ids)
    _filters,      \* the module attribute _filters: Unset, or filename -> handle
    pc,            \* per thread: position inside dict(_init_filters())
    idx,           \* per thread: position of the for loop in `order`
    acc,           \* per thread: the dict that dict() is building
    filename,      \* per thread: the local `filename`
    lib,           \* per thread: the local `lib`
    passes,        \* per thread: passes begun
    passLimit,     \* passes each thread of the run may begin
    error,         \* per thread: the exception that escaped the last pass
    log,           \* per thread and filter: what the current pass did
    prev,          \* per thread: log and result of the previous finished pass
    loads,         \* per filter: successful entry-point calls in the process
    callers,       \* per filter: threads that called its entry point
    opens,         \* CDLL objects created in the process
    call,          \* the last encoder call: function and arguments
    result         \* the last encoder call: value returned or exception raised

regVars == <<hdf5_version, platform, order, registered, _filters, pc, idx, acc,
             filename, lib, passes, passLimit, error, log, prev, loads,
             callers, opens>>
encVars == <<call, result>>
vars == <<regVars, encVars>>

-----------------------------------------------------------------------------
(* Bounds *)

MaxPasses == 2
MaxRet == 1
MaxMatches == 2

-----------------------------------------------------------------------------
(* Filter catalog *)

BLOSC == 32001
BSHUF == 32008
LZ4 == 32004

Names == {"blosc", "bshuf", "lz4"}

FILTERS == [n \in Names |->
              CASE n = "blosc" -> BLOSC
                [] n = "bshuf" -> BSHUF
                [] n = "lz4" -> LZ4]

Threads == {1, 2}

EmptyDict == <<>>

(* A module attribute: not bound yet, or bound to a dict *)
Unset == [bound |-> FALSE, dict |-> EmptyDict]

Bound(d) == [bound |-> TRUE, dict |-> d]

-----------------------------------------------------------------------------
(* Python tuple comparison: element by element, a proper prefix is smaller *)

RECURSIVE TupleLt(_, _)
TupleLt(a, b) ==
    IF a = <<>> THEN b # <<>>
    ELSE IF b = <<>> THEN FALSE
    ELSE IF Head(a) # Head(b) THEN Head(a) < Head(b)
    ELSE TupleLt(Tail(a), Tail(b))

TupleLe(a, b) == a = b \/ TupleLt(a, b)

TupleGe(a, b) == TupleLe(b, a)

(* line 206: (1, 8, 20) <= hdf5_version < (1, 10) or hdf5_version >= (1, 10, 2) *)
CheckAvailMutLowerBound(v) ==
    \/ TupleLe(<<1, 8, 2>>, v) /\ TupleLt(v, <<1, 10>>)
    \/ TupleGe(v, <<1, 10, 2>>)

CheckAvail(v) ==
    \/ TupleLe(<<1, 8, 20>>, v) /\ TupleLt(v, <<1, 10>>)
    \/ TupleGe(v, <<1, 10, 2>>)

(* h5py.h5z.filter_avail(filter_id) *)
filter_avail(reg, id) == id \in reg

(* The native entry point (register_filter / init_filter): a non-negative return
   means the filter has been entered in the host library's filter table. *)
NativeEntry(reg, id, retval) == IF retval >= 0 THEN reg \cup {id} ELSE reg

(* sys.platform.startswith('win') *)
Platforms == {"win32", "linux"}

StartsWithWin(p) == p = "win32"

EntryPoint(p) == IF StartsWithWin(p) THEN "register_filter" ELSE "init_filter"

(* c_int values an entry point returns *)
RetVals == (0 - MaxRet) .. MaxRet

(* Host library versions around the two thresholds *)
Versions == {<<ma, mi, pa>> : ma \in {0, 1, 2}, mi \in {8, 9, 10, 11}, pa \in {0, 1, 2, 19, 20}}

(* One version on each side of each threshold of line 206 *)
BoundaryVersions == {<<1, 8, 19>>, <<1, 8, 20>>, <<1, 10, 1>>, <<1, 10, 2>>}

(* One version for each outcome of line 206 *)
GateVersions == {<<1, 10, 1>>, <<1, 10, 2>>}

(* FILTERS.items() in insertion order *)
InsertionOrder == [i \in 1..3 |-> <<"blosc", "bshuf", "lz4">>[i]]

(* The orders in which a dict of three keys may be iterated *)
Orders == {s \in [1..3 -> Names] : \A i, j \in 1..3 : i # j => s[i] # s[j]}

(* Files of the plugins directory that match 'libh5' + name + '*' *)
Files(n) == {<<n, k>> : k \in 1..MaxMatches}

(* glob(): the matching files, in directory order *)
GlobResults(n) ==
    {s \in UNION {[1..k -> Files(n)] : k \in 0..MaxMatches} :
        \A i, j \in DOMAIN s : i # j => s[i] # s[j]}

DictSet(d, k, v) == [f \in DOMAIN d \cup {k} |-> IF f = k THEN v ELSE d[f]]

NoLog == [n \in Names |-> [seen |-> FALSE, queried |-> FALSE, attempted |-> FALSE,
                           opened |-> FALSE, calls |-> 0, entry |-> "none",
                           status |-> "pending"]]

-----------------------------------------------------------------------------
(* The registration pass: _filters = dict(_init_filters()) *)

InitReg(V, P, O) ==
    /\ hdf5_version \in V
    /\ platform \in P
    /\ order \in O
    /\ registered \in SUBSET {BLOSC, BSHUF, LZ4}
    /\ _filters = Unset
    /\ pc = [t \in Threads |-> "idle"]
    /\ idx = [t \in Threads |-> 0]
    /\ acc = [t \in Threads |-> EmptyDict]
    /\ filename = [t \in Threads |-> <<>>]
    /\ lib = [t \in Threads |-> 0]
    /\ passes = [t \in Threads |-> 0]
    /\ error = [t \in Threads |-> "none"]
    /\ log = [t \in Threads |-> NoLog]
    /\ prev = Unset
    /\ loads = [n \in Names |-> 0]
    /\ callers = [n \in Names |-> {}]
    /\ opens = 0

(* line 236 calls dict(_init_filters()); line 202 reads the host version *)
BeginPass(t) ==
    /\ pc[t] = "idle"
    /\ passes[t] < passLimit
    /\ passes' = [passes EXCEPT ![t] = @ + 1]
    /\ pc' = [pc EXCEPT ![t] = "loop"]
    /\ idx' = [idx EXCEPT ![t] = 1]
    /\ acc' = [acc EXCEPT ![t] = EmptyDict]
    /\ error' = [error EXCEPT ![t] = "none"]
    /\ log' = [log EXCEPT ![t] = NoLog]
    /\ prev' = IF passes[t] > 0 /\ error[t] = "none" THEN _filters ELSE prev
    /\ UNCHANGED <<hdf5_version, platform, order, registered, _filters, filename,
                   lib, passLimit, loads, callers, opens, encVars>>

(* lines 204-209: next filter of the loop, and the availability check *)
NextFilter(t) ==
    /\ pc[t] = "loop"
    /\ idx[t] <= 3
    /\ LET n == order[idx[t]]
           query == CheckAvail(hdf5_version)
           skip == query /\ filter_avail(registered, FILTERS[n])
       IN /\ log' = [log EXCEPT ![t][n].seen = TRUE,
                                ![t][n].queried = query,
                                ![t][n].attempted = ~skip,
                                ![t][n].status = IF skip THEN "skipped" ELSE @]
          /\ pc' = [pc EXCEPT ![t] = IF skip THEN "loop" ELSE "glob"]
          /\ idx' = [idx EXCEPT ![t] = IF skip THEN @ + 1 ELSE @]
    /\ UNCHANGED <<hdf5_version, platform, order, registered, _filters, acc,
                   filename, lib, passes, passLimit, error, prev, loads, callers,
                   opens, encVars>>

(* line 212: filename = glob(...)[0]; IndexError when nothing matches *)
Glob(t) ==
    /\ pc[t] = "glob"
    /\ \E m \in GlobResults(order[idx[t]]) :
         IF Len(m) = 0
         THEN /\ error' = [error EXCEPT ![t] = "IndexError"]
              /\ pc' = [pc EXCEPT ![t] = "idle"]
              /\ filename' = filename
         ELSE /\ filename' = [filename EXCEPT ![t] = m[1]]
              /\ pc' = [pc EXCEPT ![t] = "open"]
              /\ error' = error
    /\ UNCHANGED <<hdf5_version, platform, order, registered, _filters, idx, acc,
                   lib, passes, passLimit, log, prev, loads, callers, opens,
                   encVars>>

(* line 213: lib = ctypes.CDLL(filename); OSError when it cannot be opened *)
OpenLib(t) ==
    /\ pc[t] = "open"
    /\ \E ok \in BOOLEAN :
         IF ok
         THEN /\ opens' = opens + 1
              /\ lib' = [lib EXCEPT ![t] = opens + 1]
              /\ log' = [log EXCEPT ![t][order[idx[t]]].opened = TRUE]
              /\ pc' = [pc EXCEPT ![t] = "call"]
              /\ error' = error
         ELSE /\ error' = [error EXCEPT ![t] = "OSError"]
              /\ pc' = [pc EXCEPT ![t] = "idle"]
              /\ UNCHANGED <<opens, lib, log>>
    /\ UNCHANGED <<hdf5_version, platform, order, registered, _filters, idx, acc,
                   filename, passes, passLimit, prev, loads, callers, encVars>>

(* lines 215-233: call the entry point; retval < 0 is logged and the filter
   skipped, otherwise (filename, lib) is yielded to dict() *)
CallEntry(t) ==
    /\ pc[t] = "call"
    /\ \E retval \in RetVals :
         LET n == order[idx[t]]
         IN /\ registered' = NativeEntry(registered, FILTERS[n], retval)
            /\ callers' = [callers EXCEPT ![n] = @ \cup {t}]
            /\ loads' = [loads EXCEPT ![n] = IF retval >= 0 THEN @ + 1 ELSE @]
            /\ log' = [log EXCEPT ![t][n].calls = @ + 1,
                                  ![t][n].entry = EntryPoint(platform),
                                  ![t][n].status =
                                      IF retval < 0 THEN "initerr" ELSE "loaded"]
            /\ acc' = [acc EXCEPT ![t] =
                         IF retval < 0 THEN @ ELSE DictSet(@, filename[t], lib[t])]
    /\ pc' = [pc EXCEPT ![t] = "loop"]
    /\ idx' = [idx EXCEPT ![t] = @ + 1]
    /\ UNCHANGED <<hdf5_version, platform, order, _filters, filename, lib, passes,
                   passLimit, error, prev, opens, encVars>>

(* line 236: the generator is exhausted and the dict is bound to _filters *)
Finish(t) ==
    /\ pc[t] = "loop"
    /\ idx[t] > 3
    /\ _filters' = Bound(acc[t])
    /\ pc' = [pc EXCEPT ![t] = "idle"]
    /\ UNCHANGED <<hdf5_version, platform, order, registered, idx, acc, filename,
                   lib, passes, passLimit, error, log, prev, loads, callers, opens,
                   encVars>>

Pass(t) ==
    \/ BeginPass(t)
    \/ NextFilter(t)
    \/ Glob(t)
    \/ OpenLib(t)
    \/ CallEntry(t)
    \/ Finish(t)

EncIdle ==
    /\ call = [fn |-> "none"]
    /\ result = [raised |-> "none"]

(* One import of the module: one pass, every host version *)
InitOnce == InitReg(Versions, Platforms, Orders) /\ EncIdle /\ passLimit = 1

NextReg == Pass(1)

SpecReg == InitOnce /\ [][NextReg]_vars

(* The module executed again in the same process (importlib.reload) *)
InitReload == InitReg(BoundaryVersions, Platforms, Orders) /\ EncIdle /\ passLimit = MaxPasses

NextReload == Pass(1)

SpecReload == InitReload /\ [][NextReload]_vars

(* Two threads each running dict(_init_filters()) *)
InitConc == InitReg(GateVersions, {"linux"}, {InsertionOrder}) /\ EncIdle /\ passLimit = 1

NextConc == \E t \in Threads : Pass(t)

SpecConc == InitConc /\ [][NextConc]_vars

-----------------------------------------------------------------------------
(* Python values of the encoders' arguments *)

(* A number: n is its value truncated toward zero, frac says that a
   fractional part was cut (9.5 is [n |-> 9, frac |-> TRUE]); ints have none. *)
Num(n) == [n |-> n, frac |-> FALSE]

Frac(n) == [n |-> n, frac |-> TRUE]

(* int(x): truncation toward zero *)
PyInt(x) == x.n

(* x % m for m > 0: the result has the sign of the divisor *)
PyMod(x, m) == x % m

PyNone == "None"

Return(v) == [ret |-> v]

Raise(e) == [raised |-> e]

Arg(kw, key, default) == IF key \in DOMAIN kw THEN kw[key] ELSE default

-----------------------------------------------------------------------------
(* compression_opts encoders *)

BSHUF_LZ4_OPTS == <<0, 2>>

_blosc_shuffle ==
    [k \in {PyNone, "none", "byte", "bit"} |->
        CASE k = PyNone -> 0
          [] k = "none" -> 0
          [] k = "byte" -> 1
          [] k = "bit" -> 2]

_blosc_compressionMutSequential ==
    [k \in {"blosclz", "lz4", "lz4hc", "zlib", "zstd"} |->
        CASE k = "blosclz" -> 0
          [] k = "lz4" -> 1
          [] k = "lz4hc" -> 2
          [] k = "zlib" -> 3
          [] k = "zstd" -> 4]

_blosc_compression ==
    [k \in {"blosclz", "lz4", "lz4hc", "zlib", "zstd"} |->
        CASE k = "blosclz" -> 0
          [] k = "lz4" -> 1
          [] k = "lz4hc" -> 2
          [] k = "zlib" -> 4
          [] k = "zstd" -> 5]

(* lines 110-114 *)
_blosc_options(level, shuffle, compression) ==
    LET l == PyInt(level)
    IN IF ~(0 <= l /\ l <= 9) THEN Raise("AssertionError")
       ELSE IF shuffle \notin DOMAIN _blosc_shuffle THEN Raise("KeyError")
       ELSE IF compression \notin DOMAIN _blosc_compression THEN Raise("KeyError")
       ELSE Return(<<0, 0, 0, 0, l, _blosc_shuffle[shuffle],
                     _blosc_compression[compression]>>)

(* lines 128-133 *)
_bshuf_options(nelems, lz4) ==
    LET ne == PyInt(nelems)
        lz4_enabled == IF lz4 THEN 2 ELSE 0
    IN IF PyMod(ne, 8) # 0 THEN Raise("AssertionError")
       ELSE Return(<<ne, lz4_enabled>>)

(* lines 145-147 *)
_lz4_options(nbytes) ==
    LET nb == PyInt(nbytes)
    IN IF ~(0 <= nb /\ nb <= 2113929216) THEN Raise("AssertionError")
       ELSE Return(<<nb>>)

(* line 95: binding of the keyword arguments, with the defaults *)
Call_blosc_options(kw) ==
    IF ~(DOMAIN kw \subseteq {"level", "shuffle", "compression"})
    THEN Raise("TypeError")
    ELSE _blosc_options(Arg(kw, "level", Num(9)), Arg(kw, "shuffle", "byte"),
                        Arg(kw, "compression", "blosclz"))

(* line 117 *)
Call_bshuf_options(kw) ==
    IF ~(DOMAIN kw \subseteq {"nelems", "lz4"})
    THEN Raise("TypeError")
    ELSE _bshuf_options(Arg(kw, "nelems", Num(0)), Arg(kw, "lz4", TRUE))

(* line 136 *)
Call_lz4_options(kw) ==
    IF ~(DOMAIN kw \subseteq {"nbytes"})
    THEN Raise("TypeError")
    ELSE _lz4_options(Arg(kw, "nbytes", Num(0)))

(* A filter designator: [s |-> name] or [i |-> id] *)
IsName(name, s) == DOMAIN name = {"s"} /\ name.s = s

IsId(name, i) == DOMAIN name = {"i"} /\ name.i = i

Is(name, s, i) == IsName(name, s) \/ IsId(name, i)

Wrap(id, r) ==
    IF "raised" \in DOMAIN r THEN r
    ELSE Return([compression |-> id, compression_opts |-> r.ret])

compression_optsMutPastedId(name, kwargs) ==
    IF ~(Is(name, "blosc", BLOSC) \/ Is(name, "bshuf", BSHUF) \/ Is(name, "lz4", LZ4))
    THEN Raise("AssertionError")
    ELSE IF Is(name, "blosc", BLOSC) THEN Wrap(BLOSC, Call_blosc_options(kwargs))
    ELSE IF Is(name, "bshuf", BSHUF) THEN Wrap(BLOSC, Call_bshuf_options(kwargs))
    ELSE Wrap(LZ4, Call_lz4_options(kwargs))

(* lines 185-194; after the assert, line 192's test is the only case left *)
compression_opts(name, kwargs) ==
    IF ~(Is(name, "blosc", BLOSC) \/ Is(name, "bshuf", BSHUF) \/ Is(name, "lz4", LZ4))
    THEN Raise("AssertionError")
    ELSE IF Is(name, "blosc", BLOSC) THEN Wrap(BLOSC, Call_blosc_options(kwargs))
    ELSE IF Is(name, "bshuf", BSHUF) THEN Wrap(BSHUF, Call_bshuf_options(kwargs))
    ELSE Wrap(LZ4, Call_lz4_options(kwargs))

-----------------------------------------------------------------------------
(* Calls of the encoders *)

Slack == 2

LevelInputs == {Num(n) : n \in (0 - Slack) .. (9 + Slack)} \cup {Frac(0), Frac(9)}

ShuffleInputs == {PyNone, "none", "byte", "bit", "bitshuffle"}

CompressionInputs == {"blosclz", "lz4", "lz4hc", "snappy", "zlib", "zstd"}

NelemsInputs == {Num(n) : n \in (0 - 8 * Slack) .. (8 * Slack + 1)} \cup {Frac(8)}

NbytesInputs ==
    {Num(n) : n \in ((0 - Slack) .. Slack)
                    \cup ((2113929216 - Slack) .. (2113929216 + Slack))}

Restrict(f, D) == [k \in D |-> f[k]]

BloscKw ==
    {Restrict(f, D) :
        f \in [level : LevelInputs, shuffle : ShuffleInputs,
               compression : CompressionInputs],
        D \in SUBSET {"level", "shuffle", "compression"}}

BshufKw ==
    {Restrict(f, D) : f \in [nelems : NelemsInputs, lz4 : BOOLEAN],
                      D \in SUBSET {"nelems", "lz4"}}

Lz4Kw == {Restrict(f, D) : f \in [nbytes : NbytesInputs], D \in SUBSET {"nbytes"}}

Designators ==
    {[s |-> x] : x \in {"blosc", "bshuf", "lz4", "gzip", "BLOSC"}}
        \cup {[i |-> x] : x \in {BLOSC, BSHUF, LZ4, 32000, 0}}

NoName == [s |-> ""]

InitEnc ==
    /\ EncIdle
    /\ hdf5_version = <<1, 10, 2>>
    /\ platform = "linux"
    /\ order = InsertionOrder
    /\ registered = {}
    /\ _filters = Unset
    /\ pc = [t \in Threads |-> "idle"]
    /\ idx = [t \in Threads |-> 0]
    /\ acc = [t \in Threads |-> EmptyDict]
    /\ filename = [t \in Threads |-> <<>>]
    /\ lib = [t \in Threads |-> 0]
    /\ passes = [t \in Threads |-> 0]
    /\ passLimit = 0
    /\ error = [t \in Threads |-> "none"]
    /\ log = [t \in Threads |-> NoLog]
    /\ prev = Unset
    /\ loads = [n \in Names |-> 0]
    /\ callers = [n \in Names |-> {}]
    /\ opens = 0

EncodeBlosc ==
    /\ call.fn = "none"
    /\ \E kw \in BloscKw :
         /\ call' = [fn |-> "_blosc_options", name |-> NoName, kwargs |-> kw]
         /\ result' = Call_blosc_options(kw)
    /\ UNCHANGED regVars

EncodeBshuf ==
    /\ call.fn = "none"
    /\ \E kw \in BshufKw :
         /\ call' = [fn |-> "_bshuf_options", name |-> NoName, kwargs |-> kw]
         /\ result' = Call_bshuf_options(kw)
    /\ UNCHANGED regVars

EncodeLz4 ==
    /\ call.fn = "none"
    /\ \E kw \in Lz4Kw :
         /\ call' = [fn |-> "_lz4_options", name |-> NoName, kwargs |-> kw]
         /\ result' = Call_lz4_options(kw)
    /\ UNCHANGED regVars

CompressionOpts ==
    /\ call.fn = "none"
    /\ \E name \in Designators, kw \in BloscKw \cup BshufKw \cup Lz4Kw :
         /\ call' = [fn |-> "compression_opts", name |-> name, kwargs |-> kw]
         /\ result' = compression_opts(name, kw)
    /\ UNCHANGED regVars

(* The caller takes the value (or the exception) of the call *)
ReturnToCaller ==
    /\ call.fn # "none"
    /\ call' = [fn |-> "none"]
    /\ result' = [raised |-> "none"]
    /\ UNCHANGED regVars

NextEnc ==
    EncodeBlosc \/ EncodeBshuf \/ EncodeLz4 \/ CompressionOpts \/ ReturnToCaller

SpecEnc == InitEnc /\ [][NextEnc]_vars

-----------------------------------------------------------------------------
(* Properties of the registration pass *)

PassEnded(t) == pc[t] = "idle" /\ passes[t] > 0

ResultNames(m) == {f[1] : f \in DOMAIN m.dict}

Status(t, n) == log[t][n].status

(* C1: a NotFound (glob finds no artifact) or a LoadError (CDLL fails) of one
   filter is not fatal to the pass: no error escapes the pass, every catalog
   filter is processed, and every filter whose own load and entry-point call
   succeeded is in the result map. *)
C1_LoadFailureNotFatal ==
    PassEnded(1) =>
        /\ error[1] = "none"
        /\ \A n \in Names :
             /\ log[1][n].seen
             /\ Status(1, n) = "loaded" => n \in ResultNames(_filters)

(* C2: in a pass where the entry point of one filter returns a negative value,
   that filter is not in the result map and its entry point was called once,
   and every other filter whose entry point returned a non-negative value is
   in the result map at the end of the pass. *)
C2_InitErrorIsolated ==
    (PassEnded(1) /\ \E n \in Names : Status(1, n) = "initerr") =>
        \A n \in Names :
            /\ Status(1, n) = "initerr" =>
                 n \notin ResultNames(_filters) /\ log[1][n].calls = 1
            /\ Status(1, n) = "loaded" => n \in ResultNames(_filters)

(* C3: the pass run twice leaves the same set of loaded filters as the pass
   run once, and the second pass skips the filters the first pass loaded
   instead of loading them again. Stated for the runs in which no exception
   leaves either pass, so that a violation owes nothing to C1. *)
C3_SecondPassIdempotent ==
    (PassEnded(1) /\ passes[1] >= 2 /\ prev.bound /\ error[1] = "none") =>
        /\ _filters.bound
        /\ ResultNames(_filters) = ResultNames(prev)
        /\ \A n \in ResultNames(prev) : Status(1, n) = "skipped"

(* C4: at the end of a pass the result map holds exactly the filters newly
   and successfully loaded by the pass (not reported registered by an allowed
   query, artifact opened, entry point non-negative); for a filter reported
   registered nothing is opened and no entry point is called. *)
C4_ResultIsNewlyLoaded ==
    PassEnded(1) =>
        \A n \in Names :
            /\ n \in ResultNames(_filters) <=> Status(1, n) = "loaded"
            /\ Status(1, n) = "loaded" =>
                 log[1][n].attempted /\ log[1][n].opened /\ log[1][n].calls = 1
            /\ Status(1, n) = "skipped" =>
                 /\ log[1][n].queried
                 /\ ~log[1][n].opened
                 /\ log[1][n].calls = 0

(* The version ranges as the specification words them, on the triple taken
   as a number (every component below 100). *)
VersionNumber(v) == v[1] * 10000 + v[2] * 100 + v[3]

InCheckedRange(v) ==
    \/ 10820 <= VersionNumber(v) /\ VersionNumber(v) < 11000
    \/ VersionNumber(v) >= 11002

(* C5: the pass queries the host's filter table for a filter exactly when the
   host version is in [1.8.20, 1.10.0) or >= 1.10.2; otherwise no query is
   made and the load of the filter is attempted whatever the table holds. *)
C5_QueryIffVersionInRange ==
    \A t \in Threads, n \in Names :
        log[t][n].seen =>
            /\ log[t][n].queried <=> InCheckedRange(hdf5_version)
            /\ ~InCheckedRange(hdf5_version) => log[t][n].attempted
            /\ hdf5_version \in {<<1, 10, 0>>, <<1, 10, 1>>, <<1, 8, 19>>}
                   => ~log[t][n].queried
            /\ hdf5_version \in {<<1, 10, 2>>, <<1, 8, 20>>} => log[t][n].queried

(* C5 witness: on 1.10.0 a filter already in the host's table is not queried
   and its load is attempted. *)
C5_Witness ==
    \E n \in Names :
        /\ hdf5_version = <<1, 10, 0>>
        /\ FILTERS[n] \in registered
        /\ log[1][n].seen /\ ~log[1][n].queried /\ log[1][n].attempted
        /\ Status(1, n) = "loaded"

(* C6: whatever the number of passes, no filter is opened and successfully
   initialised more than once in the process. *)
C6_AtMostOneLoadPerFilter == \A n \in Names : loads[n] <= 1

(* Where the availability check of line 206 is made, a second pass loads no
   filter again. *)
CheckedVersionLoadsOnce ==
    CheckAvail(hdf5_version) => \A n \in Names : loads[n] <= 1

(* No entry point is called by both threads. *)
NoEntryPointCalledTwice == \A n \in Names : Cardinality(callers[n]) <= 1

InProgress(t) == pc[t] # "idle" /\ \E n \in Names : log[t][n].seen

(* C10: of two threads that trigger the pass, one performs it: the steps of
   two passes never interleave (no thread is inside its loop while the other
   is inside its own) and no entry point is called by both threads. *)
C10_PassesDoNotInterleave ==
    /\ ~(InProgress(1) /\ InProgress(2))
    /\ \A n \in Names : Cardinality(callers[n]) <= 1

(* A pass that no exception leaves does bind exactly what it loaded. *)
CompletedPassBindsLoaded ==
    (PassEnded(1) /\ error[1] = "none") =>
        \A n \in Names : n \in ResultNames(_filters) <=> Status(1, n) = "loaded"

-----------------------------------------------------------------------------
(* Properties of the encoders *)

IntegerInputs(kw) == \A k \in DOMAIN kw \cap {"level", "nelems", "nbytes"} : ~kw[k].frac

Returned == "ret" \in DOMAIN result

OptionsLength(fn) ==
    CASE fn = "_blosc_options" -> 7
      [] fn = "_bshuf_options" -> 2
      [] fn = "_lz4_options" -> 1

(* C7: on integer input every encoder either raises or returns a sequence of
   its fixed length (7, 2, 1) of non-negative integers inside the documented
   ranges: level in 0..9, blockElements a non-negative multiple of 8,
   blockBytes in 0..0x7E000000. *)
C7_OptionsInDocumentedRange ==
    (/\ call.fn \in {"_blosc_options", "_bshuf_options", "_lz4_options"}
     /\ IntegerInputs(call.kwargs)
     /\ Returned) =>
        LET r == result.ret
        IN /\ Len(r) = OptionsLength(call.fn)
           /\ \A i \in 1..Len(r) : r[i] >= 0
           /\ call.fn = "_blosc_options" =>
                r[5] \in 0..9 /\ r[6] \in 0..2 /\ r[7] \in {0, 1, 2, 4, 5}
           /\ call.fn = "_bshuf_options" => r[1] % 8 = 0 /\ r[2] \in {0, 2}
           /\ call.fn = "_lz4_options" => r[1] <= 2113929216

ShuffleCode(s) ==
    CASE s = "none" -> 0
      [] s = "byte" -> 1
      [] s = "bit" -> 2

CompressorCode(c) ==
    CASE c = "blosclz" -> 0
      [] c = "lz4" -> 1
      [] c = "lz4hc" -> 2
      [] c = "zlib" -> 4
      [] c = "zstd" -> 5

(* C8: for level in 0..9, shuffle in {none, byte, bit} and compressor in
   {blosclz, lz4, lz4hc, zlib, zstd} the general-purpose encoder returns
   (0, 0, 0, 0, level, shuffleCode, compressorCode), with the defaults level 9,
   byte, blosclz; code 3 is never returned; an integer level outside 0..9
   raises. *)
C8_BloscOptionsTuple ==
    (call.fn = "_blosc_options" /\ IntegerInputs(call.kwargs)) =>
        LET kw == call.kwargs
            level == IF "level" \in DOMAIN kw THEN kw.level.n ELSE 9
            shuffle == IF "shuffle" \in DOMAIN kw THEN kw.shuffle ELSE "byte"
            compressor == IF "compression" \in DOMAIN kw THEN kw.compression
                          ELSE "blosclz"
        IN /\ (/\ level \in 0..9
               /\ shuffle \in {"none", "byte", "bit"}
               /\ compressor \in {"blosclz", "lz4", "lz4hc", "zlib", "zstd"})
                  => result = [ret |-> <<0, 0, 0, 0, level, ShuffleCode(shuffle),
                                         CompressorCode(compressor)>>]
           /\ level \notin 0..9 => result = [raised |-> "AssertionError"]
           /\ Returned => Len(result.ret) = 7 /\ result.ret[7] # 3

(* C8 witness: shuffle=bit, compression=zstd, level left to its default. *)
C8_Witness ==
    /\ call.fn = "_blosc_options"
    /\ DOMAIN call.kwargs = {"shuffle", "compression"}
    /\ call.kwargs.shuffle = "bit"
    /\ call.kwargs.compression = "zstd"
    /\ result = [ret |-> <<0, 0, 0, 0, 9, 2, 5>>]

KnownFilterId(name) ==
    IF DOMAIN name = {"s"}
    THEN CASE name.s = "blosc" -> 32001
           [] name.s = "bshuf" -> 32008
           [] name.s = "lz4" -> 32004
           [] OTHER -> 0 - 1
    ELSE IF name.i \in {32001, 32008, 32004} THEN name.i ELSE 0 - 1

EncoderOf(id, kw) ==
    CASE id = 32001 -> Call_blosc_options(kw)
      [] id = 32008 -> Call_bshuf_options(kw)
      [] id = 32004 -> Call_lz4_options(kw)

(* C9: for a designator that is one of the three names or the three ids the
   dispatcher returns the id of that filter (the same by name and by number)
   and the options its encoder gives for the same keyword arguments, and
   raises when that encoder raises; any other designator raises and nothing
   is returned. *)
C9_DispatchByNameOrId ==
    call.fn = "compression_opts" =>
        LET id == KnownFilterId(call.name)
        IN IF id < 0
           THEN result = [raised |-> "AssertionError"]
           ELSE LET enc == EncoderOf(id, call.kwargs)
                IN IF "raised" \in DOMAIN enc
                   THEN result = enc
                   ELSE result = [ret |-> [compression |-> id,
                                           compression_opts |-> enc.ret]]

(* C9 witness: 'bshuf' with nelems=0, lz4=True gives id 32008 and (0, 2). *)
C9_Witness ==
    /\ call.fn = "compression_opts"
    /\ call.name = [s |-> "bshuf"]
    /\ DOMAIN call.kwargs = {"nelems", "lz4"}
    /\ call.kwargs.nelems = Num(0)
    /\ call.kwargs.lz4 = TRUE
    /\ result = [ret |-> [compression |-> 32008, compression_opts |-> <<0, 2>>]]

====
